---- MODULE Spec2Model ----
(***************************************************************************)
(* Model of src/src/simple-claimer.ts: the SimplePolymarketClaimer class  *)
(* (constructor, initialize, fetchRedeemablePositions,                     *)
(* buildRedemptionCalldata, claimViaGnosisSafe, claimViaPolymarketProxy,   *)
(* claimPosition, run, getBalances) and main() with its runOnce wrapper,   *)
(* signal handlers and scheduling loop.                                    *)
(*                                                                         *)
(* Time is counted in seconds.  Everything the program reads from the      *)
(* environment, the chain, the Safe SDK, the positions API, the clock and  *)
(* Math.random is an input drawn with \E from a small set.                 *)
(***************************************************************************)
EXTENDS Integers, Sequences, FiniteSets, TLC

\* ---------------------------------------------------------------- bounds
\* Longest positions response the API returns.
MaxPositions == 2
\* Largest outcomeIndex of a position handed to the calldata builder.
MaxOutcomeIndex == 2
\* Number of iterations after which the model stops following the loop.
MaxIterations == 2

\* ------------------------------------------------------------------ time
\* Math.floor(Math.random() * 3000) milliseconds: in seconds, the jitter is
\* one of 0 .. JitterMs - 1.
JitterMs == 3
\* The longest delay setTimeout() takes, 2^31 - 1 milliseconds, in seconds.
TimeoutMax == 2147483
\* Numbers of minutes are counted in tenths of a minute.
MinuteUnit == 10

\* ------------------------------------------------------- input universes
\* The two network profiles ('0x2791' and '0xe11A' abbreviate the USDC
\* addresses, '0x4D97' and '0x7D86' the CTF addresses).
config ==
  [mainnet |-> [chainId |-> 137, ctfAddress |-> "0x4D97",
                usdcAddress |-> "0x2791"],
   testnet |-> [chainId |-> 80001, ctfAddress |-> "0x7D86",
                usdcAddress |-> "0xe11A"]]

\* const isTestMode = false: no variable of the environment is read.
isTestMode == FALSE

currentConfig == IF isTestMode THEN config.testnet ELSE config.mainnet

\* currentConfig.chainId, and the chain ids an RPC endpoint may report.
ExpectedChainId == currentConfig.chainId
ChainIds == {config.mainnet.chainId, config.testnet.chainId}

\* provider.getCode() results: no code, a stub shorter than 10 characters,
\* and real contract code.
Codes == {"0x", "0x6080", "0x608060405234"}

\* Addresses: the signer's and another owner's.
SignerAddress == "0xSigner"
Addresses == {SignerAddress, "0xOther"}

\* Position.size is a JS number.  It is counted in units of 10^-7 share, one
\* decimal digit below the six of the settlement asset.
ShareUnit == 10 ^ 7

\* Position records of the API, restricted to the fields the filter reads.
\* The sizes are -1 share, 0, 0.004 share and 1 share; curPrice 2 stands for
\* any price that is neither 0 nor 1.
Sizes == {-ShareUnit, 0, 4 * 10 ^ 4, ShareUnit}
Prices == {0, 1, 2}
Position == [redeemable : BOOLEAN, size : Sizes, curPrice : Prices]

\* Values a rejected promise can carry into a catch (error: any) handler:
\*   "error"        an Error whose reason/message is a string
\*   "insufficient" an Error whose message contains 'insufficient funds'
\*   "nonstring"    an object whose reason/message is truthy but no string
\*   "nullish"      undefined or null
Thrown == {"error", "insufficient", "nonstring", "nullish"}

NoResult == [kind |-> "none"]
NoResponse == [kind |-> "none"]

VARIABLES
  pc,            \* where the module code / main() / run() stands
  env,           \* names of the variables set in process.env
  argv,          \* args: process.argv.slice(2)
  envInterval,   \* process.env.LOOP_INTERVAL_MINUTES, '' when it is not set
  isDryRun,      \* --dry-run or -d
  intervalMinutes, \* the interval in minutes, or undefined
  loopMode,      \* wantsLoop || !!intervalMinutes
  shouldExit,    \* main(): set by the signal handlers
  iteration,     \* main(): iteration counter
  now,           \* the wall clock, Date.now()
  nextPlanned,   \* main(): target time of the next iteration
  delay,         \* main(): base delay of the current wait
  jitter,        \* main(): jitter of the current wait
  safe,          \* this.safe: TRUE when the Safe handle is set
  chainProbe,    \* what initialize() read from the chain in this cycle
  safeProbe,     \* what the Safe probe of initialize() observed
  response,      \* the positions response being filtered
  positions,     \* run(): the claimable positions of this cycle
  idx,           \* run(): index of the next position of the for loop
  fetched,       \* TRUE once this cycle has requested the positions
  inFlight,      \* indexes of the claimPosition() calls not yet settled
  route,         \* path taken by the claimPosition() call in progress
  lastOutcome,   \* what the chain / SDK did during the call last settled
  lastResult,    \* the ClaimResult last returned by claimPosition()
  results,       \* success flags of the results of this cycle, in order
  successCount,  \* run(): successCount
  failCount,     \* run(): failCount
  submitted,     \* transactions handed to the chain during this cycle
  probeCount,    \* number of wallet-type probes since process start
  firstDone,     \* time at which the first iteration returned
  balances,      \* runOnce(): how its getBalances() calls went, until the next wait
  summary,       \* what run() printed as the outcome of this cycle
  failedBefore,  \* positions whose claim failed in the preceding cycle
  firstPath,     \* path the claims of the first cycle were routed through
  attempted,     \* positions claimPosition() was called with in this cycle, in order
  lastCall,      \* the last buildRedemptionCalldata() call and its result
  lastTx,        \* the transaction the claim last settled handed over
  exitCode       \* process exit code, -1 while the process runs

vars == <<pc, env, argv, envInterval, isDryRun, intervalMinutes, loopMode,
          shouldExit, iteration, now, nextPlanned, delay, jitter, safe,
          chainProbe, safeProbe, response, positions, fetched, idx, inFlight,
          route, lastOutcome, lastResult, results, successCount, failCount,
          submitted, probeCount, firstDone, balances, summary, failedBefore,
          firstPath, attempted, lastCall, lastTx, exitCode>>

schedVars == <<now, nextPlanned, delay, jitter, firstDone, balances>>
claimVars == <<response, positions, fetched, idx, inFlight, route,
               lastOutcome, lastResult, results, successCount, failCount,
               submitted>>
cycleVars == <<claimVars, summary>>
configVars == <<env, argv, envInterval, isDryRun, intervalMinutes, loopMode>>
callVars == <<lastCall, lastTx>>
historyVars == <<failedBefore, firstPath, attempted>>

NoProbe == [kind |-> "none"]
NoOutcome == [step |-> "none"]
NoSummary == [kind |-> "none"]
NoCall == [kind |-> "none"]
NoTx == [kind |-> "none"]

\* The variables the constructor requires, and the one the README documents
\* for the test network.
RequiredEnv == {"RPC_URL", "PK", "POLYMARKET_PROXY_ADDRESS"}
EnvNames == RequiredEnv \cup {"TEST_MODE"}

\* ------------------------------------------- command line and interval
\* A command-line argument is kept as the pieces its text falls into when it
\* is split at '=': <<"--loop">>, and <<"--interval", "15">> for the
\* argument '--interval=15'.
Arg(text) == <<text>>

\* A JS number (counted in tenths when it is a number of minutes), NaN, and
\* undefined.
Num(v) == [kind |-> "number", value |-> v]
NaN == [kind |-> "NaN"]
Undefined == [kind |-> "undefined"]

\* Number(str), for the strings that occur.
Number(str) ==
  CASE str = "" -> Num(0)
    [] str = "0" -> Num(0)
    [] str = "0.5" -> Num(MinuteUnit \div 2)
    [] str = "-5" -> Num(-5 * MinuteUnit)
    [] str = "15" -> Num(15 * MinuteUnit)
    [] str = "45" -> Num(45 * MinuteUnit)
    [] str = "40000" -> Num(40000 * MinuteUnit)
    [] OTHER -> NaN

\* Number() of a whole argument: text with a '=' in it is no number.
NumberOfArg(a) == IF Len(a) = 1 THEN Number(a[1]) ELSE NaN

\* The command lines of the runs followed cycle by cycle: a single run and
\* the default loop, each also as a dry run.
StartLines ==
  {<<>>, <<Arg("--dry-run")>>, <<Arg("--loop")>>,
   <<Arg("--loop"), Arg("--dry-run")>>}

\* Command lines with and without loop flag and with the interval given in
\* both syntaxes, valid, below one minute, not positive, not a number,
\* missing, and too long for a timer.
CommandLines ==
  StartLines \cup
  {<<Arg("-d")>>,
   <<Arg("--interval"), Arg("15")>>,
   <<Arg("--loop"), Arg("--interval"), Arg("15"), Arg("-d")>>,
   <<<<"--interval", "0.5">>>>,
   <<<<"--interval", "abc">>>>,
   <<<<"--interval", "">>, Arg("--dry-run")>>,
   <<Arg("--loop"), Arg("--interval"), Arg("0")>>,
   <<Arg("--interval"), Arg("-5")>>,
   <<Arg("--interval")>>,
   <<Arg("--interval"), Arg("--loop")>>,
   <<Arg("--interval"), <<"--interval", "15">>>>,
   <<Arg("--loop"), <<"--interval", "40000">>>>}

\* Values of LOOP_INTERVAL_MINUTES.
EnvIntervals == {"", "45", "0.5", "abc"}

\* args.includes(name)
Includes(args, name) == \E i \in 1 .. Len(args) : args[i] = Arg(name)

\* const isDryRun = args.includes('--dry-run') || args.includes('-d')
IsDryRun(args) == Includes(args, "--dry-run") \/ Includes(args, "-d")

\* const wantsLoop = args.includes('--loop')
WantsLoop(args) == Includes(args, "--loop")

\* a === '--interval' || a.startsWith('--interval=')
IsIntervalArg(a) ==
  \/ a = Arg("--interval")
  \/ Len(a) > 1 /\ a[1] = "--interval"

\* args.findIndex(...): the first such argument, 0 when there is none.
FindIndex(args) ==
  IF \E i \in 1 .. Len(args) : IsIntervalArg(args[i])
  THEN CHOOSE i \in 1 .. Len(args) :
         /\ IsIntervalArg(args[i])
         /\ \A j \in 1 .. i - 1 : ~IsIntervalArg(args[j])
  ELSE 0

\* !Number.isNaN(parsed) && parsed > 0
ValidInterval(parsed) == parsed.kind = "number" /\ parsed.value > 0

\* !intervalMinutes
NoInterval(m) == m.kind # "number" \/ m.value = 0

\* intervalMinutes after the --interval flag has been looked at: the value
\* after '=' when the argument has one, else the argument that follows.
FlagInterval(args) ==
  LET i == FindIndex(args)
  IN IF i = 0 THEN Undefined
     ELSE IF Len(args[i]) > 1
     THEN (IF ValidInterval(Number(args[i][2]))
           THEN Number(args[i][2]) ELSE Undefined)
     ELSE IF i + 1 <= Len(args) /\ args[i + 1] # Arg("")
     THEN (IF ValidInterval(NumberOfArg(args[i + 1]))
           THEN NumberOfArg(args[i + 1]) ELSE Undefined)
     ELSE Undefined

\* if (!intervalMinutes) take LOOP_INTERVAL_MINUTES when it is set, a
\* number and positive.
EnvFallback(m, envValue) ==
  IF NoInterval(m) /\ envValue # "" /\ ValidInterval(Number(envValue))
  THEN Number(envValue)
  ELSE m

\* if (wantsLoop && !intervalMinutes) intervalMinutes = 60
DefaultInterval(wantsLoop, m) ==
  IF wantsLoop /\ NoInterval(m) THEN Num(60 * MinuteUnit) ELSE m

\* A loop mode that only the flag enables.
LoopMode_FlagOnly(wantsLoop, m) == wantsLoop

\* const loopMode = wantsLoop || !!intervalMinutes
LoopMode(wantsLoop, m) == wantsLoop \/ ~NoInterval(m)

\* The interval left as it was given.
ClampInterval_None(m) == m

\* if (intervalMinutes && intervalMinutes < 1) intervalMinutes = 1
ClampInterval(m) ==
  IF ~NoInterval(m) /\ m.value < MinuteUnit THEN Num(MinuteUnit) ELSE m

\* What the module code makes of the command line and the environment.
ParsedConfig(args, envValue) ==
  LET wantsLoop == WantsLoop(args)
      m == DefaultInterval(wantsLoop, EnvFallback(FlagInterval(args), envValue))
  IN [isDryRun |-> IsDryRun(args),
      loopMode |-> LoopMode(wantsLoop, m),
      intervalMinutes |-> ClampInterval(m)]

\* const intervalMs = (intervalMinutes || 60) * 60 * 1000, in seconds.
IntervalMs ==
  ((IF NoInterval(intervalMinutes) THEN 60 * MinuteUnit
    ELSE intervalMinutes.value) * 60) \div MinuteUnit

\* Time one runOnce() takes: less than the interval, or an overrun.
CycleTimes == {1, IntervalMs + 1}

\* Nothing of main() has run yet.
NotStarted ==
  /\ shouldExit = FALSE
  /\ iteration = 1
  /\ now = 0
  /\ nextPlanned = 0
  /\ delay = 0
  /\ jitter = 0
  /\ safe = FALSE
  /\ chainProbe = NoProbe
  /\ safeProbe = NoProbe
  /\ response = NoResponse
  /\ positions = <<>>
  /\ fetched = FALSE
  /\ idx = 1
  /\ inFlight = {}
  /\ route = "none"
  /\ lastOutcome = NoOutcome
  /\ lastResult = NoResult
  /\ results = <<>>
  /\ successCount = 0
  /\ failCount = 0
  /\ submitted = 0
  /\ probeCount = 0
  /\ firstDone = -1
  /\ balances = "none"
  /\ summary = NoSummary
  /\ failedBefore = {}
  /\ firstPath = "none"
  /\ attempted = <<>>
  /\ lastCall = NoCall
  /\ lastTx = NoTx
  /\ exitCode = -1

\* The process when the module is loaded, before the command line is read.
InitConfig ==
  /\ pc = "config"
  /\ env = RequiredEnv
  /\ argv \in CommandLines
  /\ envInterval \in EnvIntervals
  /\ isDryRun = FALSE
  /\ intervalMinutes = Undefined
  /\ loopMode = FALSE
  /\ NotStarted

\* The module code up to the call of main(): the command line is read.
ParseArguments ==
  /\ pc = "config"
  /\ LET c == ParsedConfig(argv, envInterval)
     IN /\ isDryRun' = c.isDryRun
        /\ intervalMinutes' = c.intervalMinutes
        /\ loopMode' = c.loopMode
  /\ pc' = "main"
  /\ UNCHANGED <<env, argv, envInterval, callVars, historyVars, shouldExit,
                 iteration, schedVars, safe, chainProbe, safeProbe, cycleVars,
                 probeCount, exitCode>>

\* The process at the start of main(), before the claimer is constructed:
\* it was started in one of the environments envs with one of the command
\* lines lines, LOOP_INTERVAL_MINUTES not set.
InitIn(envs, lines) ==
  /\ pc = "main"
  /\ env \in envs
  /\ argv \in lines
  /\ envInterval = ""
  /\ isDryRun = ParsedConfig(argv, envInterval).isDryRun
  /\ intervalMinutes = ParsedConfig(argv, envInterval).intervalMinutes
  /\ loopMode = ParsedConfig(argv, envInterval).loopMode
  /\ NotStarted

\* The program started without TEST_MODE, which it never reads.
Init == InitIn(SUBSET RequiredEnv, StartLines)

\* process.exit() called with code 0.
ProcessExit_Zero ==
  /\ pc' = "exited"
  /\ exitCode' = 0

\* process.exit(1) in the catch of run() and in the catch of main().
ProcessExit ==
  /\ pc' = "exited"
  /\ exitCode' = 1

\* ---------------------------------------------------- the constructor
\* if (!rpcUrl || !privateKey || !this.proxyAddress) throw
MissingEnv(e) == ~(RequiredEnv \subseteq e)

\* const claimer = new SimplePolymarketClaimer(): the exception of the
\* constructor rejects main(), whose catch calls process.exit(1); otherwise
\* main() goes on to the first runOnce().
Construct ==
  /\ pc = "main"
  /\ IF MissingEnv(env)
     THEN ProcessExit
     ELSE pc' = "run_init" /\ UNCHANGED exitCode
  /\ UNCHANGED <<configVars, callVars, historyVars, shouldExit, iteration,
                 schedVars, safe, chainProbe, safeProbe, cycleVars,
                 probeCount>>

\* ----------------------------------------------------------- initialize()
\* What provider.getNetwork()/getCode() return in one initialize(), or an
\* RPC failure of one of those calls.
ChainReads ==
  {[kind |-> "rpc_error"]} \cup
  [kind : {"read"}, chainId : ChainIds, ctfCode : Codes, usdcCode : Codes,
   proxyCode : Codes]

\* What the Safe probe observes: Safe.init() throws; getOwners() or
\* getThreshold() throws; or the owners are read.
SafeProbes ==
  {[kind |-> "probed", init |-> "throws", query |-> "unused", owners |-> {}],
   [kind |-> "probed", init |-> "ok", query |-> "throws", owners |-> {}]} \cup
  {[kind |-> "probed", init |-> "ok", query |-> "ok", owners |-> o] :
     o \in (SUBSET Addresses) \ {{}}}

WrongNetwork(chainId) == chainId # ExpectedChainId

\* initialize() without its contract-code tests.
IsMissingCode_NoTest(code) == FALSE

\* code === '0x' || code.length < 10
IsMissingCode(code) == code = "0x" \/ Len(code) < 10

\* The checks of initialize() before the wallet-type probe throw.
StartupCheckThrows(c) ==
  \/ c.kind = "rpc_error"
  \/ /\ c.kind = "read"
     /\ \/ WrongNetwork(c.chainId)
        \/ IsMissingCode(c.ctfCode)
        \/ IsMissingCode(c.usdcCode)
        \/ IsMissingCode(c.proxyCode)

\* The probe without its owner test.
OwnersIncludeSigner_NoTest(owners) == TRUE

\* owners.includes(signerAddress)
OwnersIncludeSigner(owners) == SignerAddress \in owners

\* The try block of the probe runs to its end without throwing.
SafeProbeSucceeds(p) ==
  /\ p.init = "ok"
  /\ p.query = "ok"
  /\ OwnersIncludeSigner(p.owners)

\* A run() that initializes only when no probe has run yet.
RunInitializes_OnlyOnce(probes) == probes = 0

\* run() awaits this.initialize() first thing in every call: there is no
\* "already initialized" test.
RunInitializes(probes) == TRUE

Initialize ==
  /\ pc = "run_init"
  /\ IF RunInitializes(probeCount)
     THEN \E c \in ChainReads :
            /\ chainProbe' = c
            /\ IF StartupCheckThrows(c)
               THEN /\ ProcessExit
                    /\ UNCHANGED <<safe, safeProbe, probeCount>>
               ELSE \E p \in SafeProbes, balanceReadOk \in BOOLEAN :
                      /\ probeCount' = probeCount + 1
                      /\ safeProbe' = p
                      /\ IF SafeProbeSucceeds(p)
                         THEN /\ safe' = TRUE
                              /\ pc' = "run_fetch"
                              /\ UNCHANGED exitCode
                         ELSE /\ safe' = FALSE
                              /\ IF balanceReadOk
                                 THEN pc' = "run_fetch" /\ UNCHANGED exitCode
                                 ELSE ProcessExit
     ELSE /\ pc' = "run_fetch"
          /\ UNCHANGED <<safe, chainProbe, safeProbe, probeCount, exitCode>>
  /\ UNCHANGED <<configVars, callVars, historyVars, shouldExit, iteration, schedVars, cycleVars>>

\* ------------------------------------------- fetchRedeemablePositions()
RECURSIVE SeqsUpTo(_, _)
SeqsUpTo(S, n) ==
  IF n = 0 THEN {<<>>}
  ELSE LET shorter == SeqsUpTo(S, n - 1)
       IN shorter \cup {Append(q, e) : q \in {r \in shorter : Len(r) = n - 1}, e \in S}

\* axios.get() throws (the request fails); it answers with something that
\* is no list of position records (null, an object, a string, a list with a
\* null in it), on which .length, .filter or pos.redeemable throws; or it
\* answers with a list of records.
ResponsesOver(records) ==
  {[kind |-> "throws"], [kind |-> "malformed"]} \cup
  {[kind |-> "list", data |-> d] : d \in SeqsUpTo(records, MaxPositions)}

\* Every response over the position records: what FilterSpec filters.
ApiResponses == ResponsesOver(Position)

\* The records the cycles of Spec are fed with: two winners of different
\* sizes, and one record failing each test of the filter.
CycleRecords ==
  {[redeemable |-> TRUE, size |-> ShareUnit, curPrice |-> 1],
   [redeemable |-> TRUE, size |-> 4 * 10 ^ 4, curPrice |-> 1],
   [redeemable |-> FALSE, size |-> ShareUnit, curPrice |-> 1],
   [redeemable |-> TRUE, size |-> 0, curPrice |-> 1],
   [redeemable |-> TRUE, size |-> ShareUnit, curPrice |-> 0]}

CycleResponses == ResponsesOver(CycleRecords)

\* The filter without its test of curPrice.
IsClaimable_NoPriceTest(pos) ==
  IF ~pos.redeemable THEN FALSE
  ELSE IF pos.size <= 0 THEN FALSE
  ELSE TRUE

\* The callback of positions.filter().
IsClaimable(pos) ==
  IF ~pos.redeemable THEN FALSE
  ELSE IF pos.size <= 0 THEN FALSE
  ELSE IF pos.curPrice # 1 THEN FALSE
  ELSE TRUE

\* fetchRedeemablePositions() with its try block but no catch.
FetchCatches_Nothing(resp) == FALSE

\* try { ... } catch (error) { return [] }: the request and everything done
\* with the response is inside the try block, so whatever is thrown is caught.
FetchCatches(resp) == TRUE

fetchRedeemablePositions(resp) ==
  IF resp.kind = "list" THEN SelectSeq(resp.data, IsClaimable) ELSE <<>>

\* `const positions = await this.fetchRedeemablePositions()`, the API
\* answering with one of responses.  An exception leaving the call would
\* land in the catch of run().  Of the raw response only its kind is kept,
\* unless keep is set; FilterSpec sets it to compare the response with what
\* run() goes on to claim.
FetchFrom(responses, keep) ==
  /\ pc = "run_fetch"
  /\ \E resp \in responses :
       /\ response' = IF keep THEN resp ELSE [kind |-> resp.kind]
       /\ IF resp.kind # "list" /\ ~FetchCatches(resp)
          THEN ProcessExit /\ UNCHANGED positions
          ELSE /\ positions' = fetchRedeemablePositions(resp)
               /\ pc' = "run_check"
               /\ UNCHANGED exitCode
  /\ fetched' = TRUE
  /\ safeProbe' = NoProbe
  /\ UNCHANGED <<configVars, callVars, historyVars, shouldExit, iteration,
                 schedVars, safe, chainProbe, idx, inFlight, route,
                 lastOutcome, lastResult, results, successCount, failCount,
                 submitted, probeCount, summary>>

Fetch == FetchFrom(CycleResponses, FALSE)

FetchKeep == FetchFrom(ApiResponses, TRUE)

\* run() without the test for an empty list.
NothingToClaim_NoTest(ps) == FALSE

\* positions.length === 0
NothingToClaim(ps) == Len(ps) = 0

\* run(): if (positions.length === 0) { log 'No positions to claim'; return }
\* otherwise enter the for loop.
CheckEmpty ==
  /\ pc = "run_check"
  /\ IF NothingToClaim(positions)
     THEN /\ summary' = [kind |-> "no_positions"]
          /\ pc' = "balances"
     ELSE /\ pc' = "run_loop"
          /\ UNCHANGED summary
  /\ UNCHANGED <<configVars, callVars, historyVars, shouldExit, iteration,
                 schedVars, safe, chainProbe, safeProbe, claimVars,
                 probeCount, exitCode>>

\* ------------------------------------------------------ claim results
\* An error message is kept as the sequence of the parts it is put together
\* from; a result without error has none.
DryRunResult == [kind |-> "result", success |-> TRUE, txHash |-> "DRY_RUN",
                 error |-> <<>>]
Succeeded(txHash) == [kind |-> "result", success |-> TRUE, txHash |-> txHash,
                      error |-> <<>>]
Failed(error, txHash) == [kind |-> "result", success |-> FALSE,
                          txHash |-> txHash, error |-> error]
\* An exception that leaves the claim method instead of a ClaimResult.
Escapes == [kind |-> "escape"]

\* error.reason || error.message || 'Unknown error'
ErrorMsg(thrown) ==
  CASE thrown = "error" -> <<"execution reverted">>
    [] thrown = "insufficient" -> <<"insufficient funds for gas">>
    [] OTHER -> <<"nonstring">>

\* catch of claimViaGnosisSafe(): reading error.reason of undefined/null throws.
SafeCatch(thrown) ==
  IF thrown = "nullish" THEN Escapes
  ELSE Failed(ErrorMsg(thrown), "none")

\* A catch that turns whatever is thrown into a failed result.
ProxyCatch_Swallows(thrown) == Failed(<<"Unknown error">>, "none")

\* catch of claimViaPolymarketProxy(): as above, and errorMsg.includes() throws
\* when errorMsg is no string.
ProxyCatch(thrown) ==
  IF thrown = "nullish" THEN Escapes
  ELSE IF thrown = "nonstring" THEN Escapes
  ELSE Failed(ErrorMsg(thrown), "none")

\* What the Safe SDK does during one claimViaGnosisSafe().
SafeOutcomes ==
  [step : {"create_throws", "sign_throws", "execute_throws"},
   thrown : Thrown] \cup
  [step : {"executed"}, hash : {"0xhash", "undefined"}]

\* What the chain does during one claimViaPolymarketProxy().
ProxyOutcomes ==
  [step : {"balance_throws", "proxy_throws", "wait_throws"}, thrown : Thrown] \cup
  [step : {"no_gas", "receipt_null", "reverted", "confirmed"}]

\* A claimViaGnosisSafe() that reports success only with an identifier.
claimViaGnosisSafe_NeedsHash(o) ==
  IF o.step = "executed"
  THEN (IF o.hash = "undefined" THEN Failed(<<"no transaction hash">>, "none")
        ELSE Succeeded(o.hash))
  ELSE SafeCatch(o.thrown)

\* The ClaimResult (or escaping exception) of claimViaGnosisSafe().
claimViaGnosisSafe(o) ==
  IF o.step = "executed" THEN Succeeded(o.hash) ELSE SafeCatch(o.thrown)

\* Number of safe.executeTransaction() calls it makes.
SafeSubmits(o) == IF o.step \in {"execute_throws", "executed"} THEN 1 ELSE 0

\* if (balance === 0n) return the "fund this address" failure.
NoGasResult == Failed(<<"No MATIC for gas fees. Send MATIC to", SignerAddress>>, "none")

\* A claimViaPolymarketProxy() that does not look at the receipt's status.
claimViaPolymarketProxy_IgnoresStatus(o) ==
  CASE o.step = "no_gas" -> NoGasResult
    [] o.step = "receipt_null" -> Failed(<<"Transaction receipt is null">>, "none")
    [] o.step = "reverted" -> Succeeded("0xhash")
    [] o.step = "confirmed" -> Succeeded("0xhash")
    [] OTHER -> ProxyCatch(o.thrown)

\* The ClaimResult (or escaping exception) of claimViaPolymarketProxy().
claimViaPolymarketProxy(o) ==
  CASE o.step = "no_gas" -> NoGasResult
    [] o.step = "receipt_null" -> Failed(<<"Transaction receipt is null">>, "none")
    [] o.step = "reverted" -> Failed(<<"Transaction reverted">>, "0xhash")
    [] o.step = "confirmed" -> Succeeded("0xhash")
    [] OTHER -> ProxyCatch(o.thrown)

\* claimViaPolymarketProxy() without the return on a zero balance.
ProxySubmits_NoGasReturn(o) ==
  IF o.step = "balance_throws" THEN 0 ELSE 1

\* Number of factory.proxy() calls it makes.
ProxySubmits(o) ==
  IF o.step \in {"balance_throws", "no_gas"} THEN 0 ELSE 1

\* claimPosition() without its dry-run return.
ClaimRoute_NoDryRunReturn(dryRun, safeSet) ==
  IF safeSet THEN "safe" ELSE "proxy"

\* claimPosition() routing by the wrong sense of this.safe.
ClaimRoute_Swapped(dryRun, safeSet) ==
  IF dryRun THEN "dry" ELSE IF safeSet THEN "proxy" ELSE "safe"

\* claimPosition(): dry run first, then the path chosen by this.safe.
ClaimRoute(dryRun, safeSet) ==
  IF dryRun THEN "dry" ELSE IF safeSet THEN "safe" ELSE "proxy"

\* ------------------------------------------- buildRedemptionCalldata()
\* The arguments of a call.  The sizes, in units of 10^-7 share, are
\* 0.0000001, 0.000001, 0.004, 1, 1.5 and 1.2345678.
ConditionIds == {"0xc1", "0xc2"}
CallSizes == {1, 10, 4 * 10 ^ 4, ShareUnit, 15 * 10 ^ 6, 12345678}
CallInputs ==
  [conditionId : ConditionIds, outcomeIndex : 0 .. MaxOutcomeIndex,
   negativeRisk : BOOLEAN, size : CallSizes]

\* An exception thrown in place of a value.
Throws == [kind |-> "throws"]

\* The k decimal digits of n, most significant first.
RECURSIVE DigitsOf(_, _)
DigitsOf(n, k) ==
  IF k = 0 THEN <<>> ELSE Append(DigitsOf(n \div 10, k - 1), n % 10)

RECURSIVE StripZeros(_)
StripZeros(ds) ==
  IF ds # <<>> /\ ds[Len(ds)] = 0
  THEN StripZeros(SubSeq(ds, 1, Len(ds) - 1))
  ELSE ds

\* size.toString() of a non-negative number: exponent notation ('1e-7') for
\* a non-zero number below 10^-6, and otherwise the integer part and the
\* fraction digits up to the last one that is not zero.
NumberToString(x) ==
  IF 0 < x /\ x < 10
  THEN [kind |-> "exponent"]
  ELSE [kind |-> "decimal", whole |-> x \div ShareUnit,
        frac |-> StripZeros(DigitsOf(x % ShareUnit, 7))]

\* The number a digit sequence writes.
RECURSIVE DigitsValue(_)
DigitsValue(ds) ==
  IF ds = <<>> THEN 0
  ELSE 10 * DigitsValue(SubSeq(ds, 1, Len(ds) - 1)) + ds[Len(ds)]

\* The 6 of ethers.parseUnits(size.toString(), 6).
UsdcDecimals == 6

\* A parseUnits() that takes the digits as they are, without scaling.
parseUnits_NoPadding(str, decimals) ==
  IF str.kind # "decimal" THEN Throws
  ELSE [kind |-> "value",
        value |-> str.whole * 10 ^ Len(str.frac) + DigitsValue(str.frac)]

\* ethers.parseUnits(str, decimals): the string must be digits with at most
\* one point ('1e-7' is none), the fraction digits beyond decimals must all
\* be zero, and the value is the number scaled by 10^decimals.
parseUnits(str, decimals) ==
  IF str.kind # "decimal" THEN Throws
  ELSE IF \E i \in decimals + 1 .. Len(str.frac) : str.frac[i] # 0 THEN Throws
  ELSE LET padded == [i \in 1 .. decimals |->
                        IF i <= Len(str.frac) THEN str.frac[i] ELSE 0]
       IN [kind |-> "value",
           value |-> str.whole * 10 ^ decimals + DigitsValue(padded)]

\* The amounts put into the slot of the other outcome.
NegRiskAmounts_Swapped(outcomeIndex, amount) ==
  IF outcomeIndex = 0 THEN <<0, amount>> ELSE <<amount, 0>>

\* outcomeIndex === 0 ? [amount, 0n] : [0n, amount]
NegRiskAmounts(outcomeIndex, amount) ==
  IF outcomeIndex = 0 THEN <<amount, 0>> ELSE <<0, amount>>

\* An index set that counts the outcomes instead of shifting.
ShiftLeft_Adds(x, k) == x + k

\* x << BigInt(k)
RECURSIVE ShiftLeft(_, _)
ShiftLeft(x, k) == IF k = 0 THEN x ELSE ShiftLeft(2 * x, k - 1)

\* ethers.ZeroHash, abbreviated.
ZeroHash == "0x0000"

\* interface.encodeFunctionData(): the ABI encoding is one-to-one, so the
\* calldata is kept as the function signature with its arguments.
EncodeFunctionData(signature, args) ==
  [kind |-> "calldata", signature |-> signature, args |-> args]

buildRedemptionCalldata(conditionId, outcomeIndex, negativeRisk, size) ==
  IF negativeRisk
  THEN LET amount == parseUnits(NumberToString(size), UsdcDecimals)
       IN IF amount.kind = "throws" THEN Throws
          ELSE EncodeFunctionData(
                 "redeemPositions(bytes32,uint256[])",
                 <<conditionId, NegRiskAmounts(outcomeIndex, amount.value)>>)
  ELSE LET indexSet == ShiftLeft(1, outcomeIndex)
       IN EncodeFunctionData(
            "redeemPositions(address,bytes32,bytes32,uint256[])",
            <<currentConfig.usdcAddress, ZeroHash, conditionId, <<indexSet>>>>)

\* A call of buildRedemptionCalldata() on the constructed claimer: it
\* awaits nothing and assigns nothing; only the call is recorded.
BuildCalldata ==
  /\ pc \notin {"main", "done", "exited"}
  /\ \E in \in CallInputs :
       lastCall' = [kind |-> "call", input |-> in,
                    output |-> buildRedemptionCalldata(in.conditionId,
                                 in.outcomeIndex, in.negativeRisk, in.size)]
  /\ UNCHANGED <<pc, configVars, historyVars, lastTx, shouldExit,
                 iteration, schedVars, safe, chainProbe, safeProbe, cycleVars,
                 probeCount, exitCode>>

\* --------------------------------------------- the redemption transaction
\* NEG_RISK_ADAPTER_ADDRESS ('0xd91E80cF...'), abbreviated.
NegRiskAdapter == "0xd91E"

\* The target of the other market type.
TargetAddress_Swapped(negativeRisk) ==
  IF negativeRisk THEN currentConfig.ctfAddress ELSE NegRiskAdapter

\* position.negativeRisk ? NEG_RISK_ADAPTER : currentConfig.ctfAddress
TargetAddress(negativeRisk) ==
  IF negativeRisk THEN NegRiskAdapter ELSE currentConfig.ctfAddress

\* Position records with the fields the transaction is built from, all of
\* them claimable: 1 share and 1.2345678 shares, the first and the last
\* outcome, of standard and of negative-risk markets.
TxRecords ==
  [redeemable : {TRUE}, size : {ShareUnit, 12345678}, curPrice : {1},
   conditionId : {"0xc1"}, outcomeIndex : {0, MaxOutcomeIndex},
   negativeRisk : BOOLEAN]

TxResponses == ResponsesOver(TxRecords)

\* The single call both claim methods wrap for the wallet: the calldata for
\* the position, addressed to the contract of its market type, value 0.  The
\* position is kept next to it.  Building the calldata may throw.
RedemptionTx(pos, via) ==
  LET calldata == buildRedemptionCalldata(pos.conditionId, pos.outcomeIndex,
                                          pos.negativeRisk, pos.size)
  IN IF calldata.kind = "throws" THEN Throws
     ELSE [kind |-> "tx", via |-> via, position |-> pos,
           to |-> TargetAddress(pos.negativeRisk), value |-> 0,
           data |-> calldata]

\* The calldata could not be built: the exception of parseUnits() is an
\* Error with a message, thrown inside the try block of the claim method.
BuildThrows == [step |-> "build_throws", thrown |-> "error"]

\* claimViaPolymarketProxy() gets as far as building the calldata.
ProxyBuilds(o) == o.step \notin {"balance_throws", "no_gas"}

\* ---------------------------------------------------------------- run()
\* The for loop without the await.
LoopAwaitsClaim_Not == FALSE

\* `await this.claimPosition(...)`: the for loop goes on only when the
\* previous call has settled.
LoopAwaitsClaim == TRUE

LoopReady ==
  IF LoopAwaitsClaim THEN pc = "run_loop" ELSE pc \in {"run_loop", "claiming"}

\* for (const position of positions): call claimPosition for the next one.
ClaimBegin ==
  /\ LoopReady
  /\ idx <= Len(positions)
  /\ inFlight' = inFlight \cup {idx}
  /\ idx' = idx + 1
  /\ route' = ClaimRoute(isDryRun, safe)
  /\ attempted' = Append(attempted, positions[idx])
  /\ pc' = "claiming"
  /\ UNCHANGED <<configVars, callVars, failedBefore, firstPath, shouldExit,
                 iteration, schedVars, safe,
                 chainProbe, safeProbe, response, positions, fetched,
                 lastOutcome, lastResult, results, successCount, failCount,
                 submitted, probeCount, summary, exitCode>>

\* The call for position k meets outcome o and settles with result r after
\* n submissions, having handed over transaction tx; an exception that
\* escapes it lands in the catch of run().
Settle(k, o, r, n, tx) ==
  /\ submitted' = submitted + n
  /\ lastTx' = tx
  /\ inFlight' = inFlight \ {k}
  /\ lastOutcome' = o
  /\ IF r.kind = "escape"
     THEN ProcessExit /\ UNCHANGED lastResult
     ELSE /\ lastResult' = r
          /\ pc' = "claimed"
          /\ UNCHANGED exitCode
  /\ UNCHANGED <<configVars, lastCall, historyVars, shouldExit, iteration,
                 schedVars, safe, chainProbe, safeProbe, response, positions,
                 fetched, idx, route, results, successCount, failCount,
                 probeCount, summary>>

ClaimDryRun ==
  /\ pc = "claiming"
  /\ route = "dry"
  /\ \E k \in inFlight : Settle(k, [step |-> "dry_run"], DryRunResult, 0, NoTx)

\* claimPosition() on the Safe path.  With build set, the positions carry
\* the fields the transaction is built from, and it is built; otherwise the
\* building is left to the outcomes of the SDK calls.
ClaimViaGnosisSafeWith(build) ==
  /\ pc = "claiming"
  /\ route = "safe"
  /\ \E k \in inFlight :
       LET tx == IF build THEN RedemptionTx(positions[k], "safe") ELSE NoTx
       IN IF tx.kind = "throws"
          THEN Settle(k, BuildThrows, SafeCatch(BuildThrows.thrown), 0, NoTx)
          ELSE \E o \in SafeOutcomes :
                 Settle(k, o, claimViaGnosisSafe(o), SafeSubmits(o), tx)

ClaimViaGnosisSafe == ClaimViaGnosisSafeWith(FALSE)

ClaimViaGnosisSafeTx == ClaimViaGnosisSafeWith(TRUE)

\* claimPosition() on the proxy-factory path, likewise; the transaction is
\* built after the balance has been read and found above zero.
ClaimViaPolymarketProxyWith(build) ==
  /\ pc = "claiming"
  /\ route = "proxy"
  /\ \E k \in inFlight, o \in ProxyOutcomes :
       LET tx == IF build /\ ProxyBuilds(o)
                 THEN RedemptionTx(positions[k], "proxy") ELSE NoTx
       IN IF tx.kind = "throws"
          THEN Settle(k, BuildThrows, ProxyCatch(BuildThrows.thrown), 0, NoTx)
          ELSE Settle(k, o, claimViaPolymarketProxy(o), ProxySubmits(o), tx)

ClaimViaPolymarketProxy == ClaimViaPolymarketProxyWith(FALSE)

ClaimViaPolymarketProxyTx == ClaimViaPolymarketProxyWith(TRUE)

\* A count that leaves failed claims out.
Tally_SkipsFailures ==
  /\ pc = "claimed"
  /\ successCount' = IF lastResult.success THEN successCount + 1 ELSE successCount
  /\ failCount' = failCount
  /\ results' = Append(results, lastResult.success)
  /\ lastResult' = NoResult
  /\ lastOutcome' = NoOutcome
  /\ route' = "none"
  /\ pc' = "run_loop"
  /\ UNCHANGED <<configVars, callVars, historyVars, shouldExit, iteration, schedVars, safe,
                 chainProbe, safeProbe, response, positions, fetched, idx,
                 inFlight, submitted, probeCount, summary, exitCode>>

\* if (result.success) successCount++ else failCount++
Tally ==
  /\ pc = "claimed"
  /\ successCount' = IF lastResult.success THEN successCount + 1 ELSE successCount
  /\ failCount' = IF lastResult.success THEN failCount ELSE failCount + 1
  /\ results' = Append(results, lastResult.success)
  /\ lastResult' = NoResult
  /\ lastOutcome' = NoOutcome
  /\ route' = "none"
  /\ pc' = "run_loop"
  /\ UNCHANGED <<configVars, callVars, historyVars, shouldExit, iteration, schedVars, safe,
                 chainProbe, safeProbe, response, positions, fetched, idx,
                 inFlight, submitted, probeCount, summary, exitCode>>

\* positions.reduce((sum, pos) => sum + pos.size, 0)
RECURSIVE TotalValue(_)
TotalValue(ps) ==
  IF ps = <<>> THEN 0 ELSE Head(ps).size + TotalValue(Tail(ps))

\* A toFixed() that cuts the digits off instead of rounding.
ToFixed_Truncates(x, digits) ==
  LET step == 10 ^ (7 - digits)
      n == x \div step
  IN [whole |-> n \div (10 ^ digits), frac |-> n % (10 ^ digits)]

\* Number.prototype.toFixed(digits) of a non-negative number x: the n for
\* which n / 10^digits is closest to x (the larger one of two), written with
\* digits decimals.
ToFixed(x, digits) ==
  LET step == 10 ^ (7 - digits)
      n == (x + step \div 2) \div step
  IN [whole |-> n \div (10 ^ digits), frac |-> n % (10 ^ digits)]

\* The for loop is over: the summary is printed and run() returns.
Summary ==
  /\ pc = "run_loop"
  /\ idx > Len(positions)
  /\ summary' = IF isDryRun
                THEN [kind |-> "dry_run", wouldClaim |-> successCount,
                      totalValue |-> ToFixed(TotalValue(positions), 2)]
                ELSE [kind |-> "claimed", successful |-> successCount,
                      failed |-> failCount, total |-> Len(positions)]
  /\ pc' = "balances"
  /\ UNCHANGED <<configVars, callVars, historyVars, shouldExit, iteration,
                 schedVars, safe, chainProbe, safeProbe, claimVars,
                 probeCount, exitCode>>

\* --------------------------------------------------------------- main()
\* The next target taken from the clock: now + intervalMs.
NextTarget_FromNow(target, clock) == clock + IntervalMs

\* nextPlanned += intervalMs: from the previous target, not from the clock.
NextTarget(target, clock) == target + IntervalMs

\* A runOnce() without its try/catch.
RunOnceCatches_Nothing == FALSE

\* try { run(); getBalances(); ... } catch (err) { console.error(...) }
RunOnceCatches == TRUE

\* A first target counted from the start of the process.
FirstTarget_FromStart(clock) == IntervalMs

\* let nextPlanned = Date.now() + intervalMs, after the first runOnce().
FirstTarget(clock) == clock + IntervalMs

\* runOnce(): getBalances() runs, once in a dry run and twice otherwise; it
\* only reads and logs, and it goes through or one of its reads throws.
\* runOnce returns after the cycle took t seconds, and main() goes on
\* without yielding: single-run mode returns, loop mode sets or advances
\* nextPlanned.  An exception leaving runOnce would reject main(), whose
\* catch calls process.exit(1).
RunOnceReturns ==
  /\ pc = "balances"
  /\ \E t \in CycleTimes : now' = now + t
  /\ \E b \in {"ok", "throws"} :
       /\ balances' = b
       /\ IF b = "throws" /\ ~RunOnceCatches
          THEN ProcessExit /\ UNCHANGED <<nextPlanned, firstDone>>
          ELSE IF iteration = 1
          THEN IF ~loopMode
               THEN /\ pc' = "done"
                    /\ exitCode' = 0
                    /\ UNCHANGED <<nextPlanned, firstDone>>
               ELSE /\ nextPlanned' = FirstTarget(now')
                    /\ firstDone' = now'
                    /\ pc' = "loop_top"
                    /\ UNCHANGED exitCode
          ELSE /\ nextPlanned' = NextTarget(nextPlanned, now')
               /\ pc' = "loop_top"
               /\ UNCHANGED <<firstDone, exitCode>>
  /\ UNCHANGED <<configVars, callVars, historyVars, shouldExit, iteration,
                 delay, jitter, safe, chainProbe, safeProbe, cycleVars,
                 probeCount>>

\* while (!shouldExit) fails: 'Exiting loop mode. Bye.'
LoopExit ==
  /\ pc = "loop_top"
  /\ shouldExit
  /\ pc' = "done"
  /\ exitCode' = 0
  /\ UNCHANGED <<configVars, callVars, historyVars, shouldExit, iteration, schedVars, safe,
                 chainProbe, safeProbe, cycleVars, probeCount>>

Max(a, b) == IF a < b THEN b ELSE a

\* The delay without the clamp.
BaseDelay_Unclamped(target, clock) == target - clock

\* delay = nextPlanned - now; if (delay < 0) delay = 0
BaseDelay(target, clock) == Max(0, target - clock)

\* The loop body up to `await setTimeout(r, delay + jitter)`.
StartWait ==
  /\ pc = "loop_top"
  /\ ~shouldExit
  /\ delay' = BaseDelay(nextPlanned, now)
  /\ \E j \in 0 .. JitterMs - 1 : jitter' = j
  /\ balances' = "none"
  /\ pc' = "waiting"
  /\ UNCHANGED <<configVars, callVars, historyVars, shouldExit, iteration,
                 now, nextPlanned, firstDone, safe, chainProbe, safeProbe,
                 cycleVars, probeCount, exitCode>>

\* The loop without the test after the wait.
BreakAfterWait_Missing == FALSE

\* if (shouldExit) break, after the wait.
BreakAfterWait == shouldExit

\* The positions of ps whose result in flags is a failure.
FailedOf(ps, flags) ==
  {ps[i] : i \in {j \in 1 .. Len(flags) : ~flags[j]}}

\* setTimeout(r, ms) fires after ms; a delay above TimeoutMax is set to one
\* millisecond, which is no time when counted in seconds.
SetTimeout(ms) == IF ms > TimeoutMax THEN 0 ELSE ms

\* The path this.safe stands for.
PathOf(safeSet) == IF safeSet THEN "safe" ELSE "proxy"

\* The timer fires: if (shouldExit) break; otherwise the next runOnce starts.
\* The positions and results of the cycle before are gone with its run().
\* For comparison with what the next cycles do, the positions that failed
\* in it are remembered when keepFailed is set, and the path of the first
\* cycle when keepPath is set.
WakeFrom(keepFailed, keepPath) ==
  /\ pc = "waiting"
  /\ BreakAfterWait \/ iteration < MaxIterations
  /\ now' = now + SetTimeout(delay + jitter)
  /\ IF BreakAfterWait
     THEN /\ pc' = "done"
          /\ exitCode' = 0
          /\ UNCHANGED <<iteration, chainProbe, cycleVars, historyVars>>
     ELSE /\ iteration' = iteration + 1
          /\ pc' = "run_init"
          /\ failedBefore' = IF keepFailed THEN FailedOf(positions, results)
                             ELSE {}
          /\ firstPath' = IF keepPath /\ iteration = 1 THEN PathOf(safe)
                          ELSE firstPath
          /\ attempted' = <<>>
          /\ summary' = NoSummary
          /\ chainProbe' = NoProbe
          /\ response' = NoResponse
          /\ positions' = <<>>
          /\ fetched' = FALSE
          /\ idx' = 1
          /\ inFlight' = {}
          /\ route' = "none"
          /\ lastOutcome' = NoOutcome
          /\ lastResult' = NoResult
          /\ results' = <<>>
          /\ successCount' = 0
          /\ failCount' = 0
          /\ submitted' = 0
          /\ UNCHANGED exitCode
  /\ UNCHANGED <<configVars, callVars, shouldExit, nextPlanned, delay,
                 jitter, firstDone, balances, safe, safeProbe, probeCount>>

Wake == WakeFrom(FALSE, FALSE)

WakeKeep == WakeFrom(TRUE, FALSE)

WakePath == WakeFrom(FALSE, TRUE)

\* Points at which main() is suspended in an await, so that a signal handler
\* can run.
AwaitPoints == {"run_init", "run_fetch", "claiming", "balances", "waiting"}

\* process.on('SIGINT' / 'SIGTERM'): shutdown() sets the flag.
Signal ==
  /\ pc \in AwaitPoints
  /\ ~shouldExit
  /\ shouldExit' = TRUE
  /\ UNCHANGED <<pc, configVars, callVars, historyVars, iteration, schedVars, safe, chainProbe,
                 safeProbe, cycleVars, probeCount, exitCode>>

Next ==
  \/ Construct
  \/ Initialize
  \/ Fetch
  \/ CheckEmpty
  \/ ClaimBegin
  \/ ClaimDryRun
  \/ ClaimViaGnosisSafe
  \/ ClaimViaPolymarketProxy
  \/ Tally
  \/ Summary
  \/ RunOnceReturns
  \/ LoopExit
  \/ StartWait
  \/ Wake
  \/ Signal

Spec == Init /\ [][Next]_vars

\* The steps of the program itself: everything but the arrival of a signal.
Step ==
  \/ Construct
  \/ Initialize
  \/ Fetch
  \/ CheckEmpty
  \/ ClaimBegin
  \/ ClaimDryRun
  \/ ClaimViaGnosisSafe
  \/ ClaimViaPolymarketProxy
  \/ Tally
  \/ Summary
  \/ RunOnceReturns
  \/ LoopExit
  \/ StartWait
  \/ Wake

\* The event loop runs every continuation that is ready, and every awaited
\* call and timer settles at some time.
FairSpec == Spec /\ WF_vars(Step)

\* The program with the failures of each cycle remembered into the next.
NextRetry ==
  \/ Construct
  \/ Initialize
  \/ Fetch
  \/ CheckEmpty
  \/ ClaimBegin
  \/ ClaimDryRun
  \/ ClaimViaGnosisSafe
  \/ ClaimViaPolymarketProxy
  \/ Tally
  \/ Summary
  \/ RunOnceReturns
  \/ LoopExit
  \/ StartWait
  \/ WakeKeep
  \/ Signal

RetrySpec == Init /\ [][NextRetry]_vars

\* The loop claiming for real, with the path of its first cycle remembered.
NextPath ==
  \/ Construct
  \/ Initialize
  \/ Fetch
  \/ CheckEmpty
  \/ ClaimBegin
  \/ ClaimDryRun
  \/ ClaimViaGnosisSafe
  \/ ClaimViaPolymarketProxy
  \/ Tally
  \/ Summary
  \/ RunOnceReturns
  \/ LoopExit
  \/ StartWait
  \/ WakePath
  \/ Signal

PathSpec ==
  InitIn({RequiredEnv}, {<<Arg("--loop")>>, <<Arg("--loop"), Arg("-d")>>})
    /\ [][NextPath]_vars

\* Calls of the calldata builder on a claimer, from its construction to the
\* return of its first initialize().
NextCalldata ==
  \/ Construct
  \/ Initialize
  \/ BuildCalldata

CalldataSpec == Init /\ [][NextCalldata]_vars

\* The start of the process, in any environment, up to the return of the
\* first initialize().
NextStartup ==
  \/ Construct
  \/ Initialize

StartupSpec == InitIn(SUBSET EnvNames, StartLines) /\ [][NextStartup]_vars

\* The positions API for an account with nothing to claim: the request
\* fails, or the list is empty.
NoPositionResponses == {[kind |-> "throws"], [kind |-> "list", data |-> <<>>]}

FetchNothing == FetchFrom(NoPositionResponses, FALSE)

\* The program from the reading of its command line on, run for an account
\* with nothing to claim.
NextConfig ==
  \/ ParseArguments
  \/ Construct
  \/ Initialize
  \/ FetchNothing
  \/ CheckEmpty
  \/ RunOnceReturns
  \/ LoopExit
  \/ StartWait
  \/ Wake
  \/ Signal

ConfigSpec == InitConfig /\ [][NextConfig]_vars

\* One cycle of run() in single-run mode, from the return of a successful
\* initialize() on, with the API response kept next to the claims made.
GoodChainRead ==
  [kind |-> "read", chainId |-> ExpectedChainId, ctfCode |-> "0x608060405234",
   usdcCode |-> "0x608060405234", proxyCode |-> "0x608060405234"]

InitFilter ==
  /\ pc = "run_fetch"
  /\ env = RequiredEnv
  /\ argv \in {<<>>, <<Arg("--dry-run")>>}
  /\ envInterval = ""
  /\ isDryRun = ParsedConfig(argv, envInterval).isDryRun
  /\ intervalMinutes = ParsedConfig(argv, envInterval).intervalMinutes
  /\ loopMode = ParsedConfig(argv, envInterval).loopMode
  /\ shouldExit = FALSE
  /\ iteration = 1
  /\ now = 0
  /\ nextPlanned = 0
  /\ delay = 0
  /\ jitter = 0
  /\ safe \in BOOLEAN
  /\ chainProbe = GoodChainRead
  /\ safeProbe = NoProbe
  /\ response = NoResponse
  /\ positions = <<>>
  /\ fetched = FALSE
  /\ idx = 1
  /\ inFlight = {}
  /\ route = "none"
  /\ lastOutcome = NoOutcome
  /\ lastResult = NoResult
  /\ results = <<>>
  /\ successCount = 0
  /\ failCount = 0
  /\ submitted = 0
  /\ probeCount = 1
  /\ firstDone = -1
  /\ balances = "none"
  /\ summary = NoSummary
  /\ failedBefore = {}
  /\ firstPath = "none"
  /\ attempted = <<>>
  /\ lastCall = NoCall
  /\ lastTx = NoTx
  /\ exitCode = -1

NextFilter ==
  \/ FetchKeep
  \/ CheckEmpty
  \/ ClaimBegin
  \/ ClaimDryRun
  \/ ClaimViaGnosisSafe
  \/ ClaimViaPolymarketProxy
  \/ Tally
  \/ Summary
  \/ RunOnceReturns

FilterSpec == InitFilter /\ [][NextFilter]_vars

\* One cycle of run() claiming for real, single-run mode, from the return of
\* a successful initialize() on, over positions that carry the fields the
\* transactions are built from.
FetchTx == FetchFrom(TxResponses, FALSE)

InitTx == InitFilter /\ ~isDryRun

NextTx ==
  \/ FetchTx
  \/ CheckEmpty
  \/ ClaimBegin
  \/ ClaimViaGnosisSafeTx
  \/ ClaimViaPolymarketProxyTx
  \/ Tally
  \/ Summary
  \/ RunOnceReturns

TxSpec == InitTx /\ [][NextTx]_vars

\* ================================================================ claims
\* ---------------------------------------------------------------- C1
ClaimablePerSpec(p) == p.redeemable /\ p.size > 0 /\ p.curPrice = 1

\* C1: fetchRedeemablePositions returns exactly the positions of the response
\* that are redeemable with size > 0 and curPrice = 1, in response order (and
\* nothing when there is no list); every position handed to claimPosition is
\* one of them, so none has curPrice = 0, size <= 0 or redeemable = FALSE.
C1_FilterExact ==
  /\ fetched /\ response.kind = "list"
       => positions = SelectSeq(response.data, ClaimablePerSpec)
  /\ fetched /\ response.kind # "list" => positions = <<>>
  /\ \A i \in 1 .. Len(positions) :
       /\ positions[i].redeemable
       /\ positions[i].size > 0
       /\ positions[i].curPrice = 1
  /\ \A k \in inFlight : k \in 1 .. Len(positions)
  /\ idx <= Len(positions) + 1

\* A response whose first record is a redeemable loser (curPrice = 0) and
\* whose second record wins: only the winner is returned, and it has been
\* claimed.
C1_Witness ==
  /\ response.kind = "list"
  /\ Len(response.data) = 2
  /\ response.data[1].redeemable /\ response.data[1].curPrice = 0
  /\ response.data[1].size > 0
  /\ Len(positions) = 1
  /\ Len(results) = 1

\* ---------------------------------------------------------------- C2
\* The cycle is past its claim loop, or the process has ended.
CycleOver == pc \in {"balances", "loop_top", "waiting", "done", "exited"}

RECURSIVE CountOf(_, _)
CountOf(flags, b) ==
  IF flags = <<>> THEN 0
  ELSE (IF Head(flags) = b THEN 1 ELSE 0) + CountOf(Tail(flags), b)

\* C2: batch isolation.  When a non-dry-run cycle over N claimable positions
\* is over, every position has been attempted and has a result, whatever
\* failed, and the summary counts are the numbers of failed and successful
\* claims (one failure gives 1 and N - 1).
C2_BatchIsolation ==
  ~isDryRun /\ Len(positions) > 0 /\ CycleOver
    => /\ idx = Len(positions) + 1
       /\ Len(results) = Len(positions)
       /\ failCount = CountOf(results, FALSE)
       /\ successCount = CountOf(results, TRUE)

\* ---------------------------------------------------------------- C3
\* C3: in dry-run mode no transaction is ever submitted, on either path, in
\* single-run and in loop mode, in any cycle.
C3_DryRunSubmitsNothing == isDryRun => submitted = 0

\* A dry run in loop mode that has gone through the claims of its second
\* cycle.
C3_Witness ==
  /\ isDryRun
  /\ iteration = 2
  /\ pc = "balances"
  /\ successCount = 2

\* ---------------------------------------------------------------- C4
\* C4 as amended: the wait before cycle n + 1 is computed from a target that
\* is the completion time of cycle 1 plus n intervals: cycle 2's target is
\* anchored at the completion of cycle 1, and from then on each target is
\* the previous target plus the interval, whatever the cycles took.
C4_DelayFromAnchoredTarget ==
  pc = "waiting"
    => delay = (IF firstDone + iteration * IntervalMs > now
                THEN firstDone + iteration * IntervalMs - now
                ELSE 0)

\* The wait before cycle 3, after a second cycle that was shorter than the
\* interval: the base delay is what is left of the interval.
C4_Witness ==
  /\ pc = "waiting"
  /\ iteration = 2
  /\ delay > 0
  /\ delay < IntervalMs

\* C4 as stated: for every n >= 1 the wait before cycle n + 1 is computed
\* from the scheduled time of cycle n plus the interval; with cycle 1
\* scheduled at the process start (time 0) the target of cycle n + 1 is n
\* intervals after the start.
C4_DelayFromScheduledStart ==
  pc = "waiting"
    => delay = (IF iteration * IntervalMs > now
                THEN iteration * IntervalMs - now
                ELSE 0)

\* ---------------------------------------------------------------- C5
InCycle == pc \in {"run_init", "run_fetch", "run_check", "run_loop",
                   "claiming", "claimed", "balances"}
Terminated == pc \in {"done", "exited"}

\* A signal changes shouldExit and nothing else.
C5_SignalOnlySetsFlag ==
  shouldExit' # shouldExit
    => /\ shouldExit'
       /\ UNCHANGED <<pc, configVars, callVars, historyVars, iteration,
                      schedVars, safe, chainProbe,
                      safeProbe, cycleVars, probeCount, exitCode>>

\* Once the flag is set no iteration is started.
C5_NoNewCycle == shouldExit => iteration' = iteration /\ pc' # "run_init"

\* With the flag set, a cycle in flight goes on as it would without it: it
\* stays in the cycle, returns from runOnce, or ends in process.exit(1) of
\* run(); and a claim in flight settles into a result or that exit.
C5_CycleGoesOn ==
  shouldExit /\ InCycle /\ pc' # pc
    => /\ pc' \in {"run_fetch", "run_check", "run_loop", "claiming",
                   "claimed", "balances", "loop_top", "done", "exited"}
       /\ pc' = "done" => pc = "balances" /\ ~loopMode
       /\ pc' = "loop_top" => pc = "balances"
       /\ pc = "claiming" => pc' \in {"claimed", "exited"}

\* A cycle that returns has attempted every claimable position.
C5_NoPartialCycle ==
  pc = "balances" => fetched /\ idx = Len(positions) + 1 /\ inFlight = {}

\* C5: graceful shutdown.  A signal only sets the flag; it aborts neither the
\* cycle nor the claim in flight; no cycle is started once it is set; and
\* the process then ends.
C5_GracefulShutdown ==
  /\ [][C5_SignalOnlySetsFlag /\ C5_NoNewCycle /\ C5_CycleGoesOn]_vars
  /\ [](shouldExit => (InCycle => ENABLED Step))
  /\ [](C5_NoPartialCycle \/ Len(positions) = 0)
  /\ (shouldExit ~> Terminated)

\* The signal arrived while the second claim of a later cycle was in flight;
\* the claim settled, the cycle returned, and the loop has ended.
C5_Witness ==
  /\ shouldExit
  /\ loopMode
  /\ iteration = 2
  /\ pc = "done"
  /\ Len(results) = 2

C8_PathSelection ==
  /\ pc = "run_fetch"
       => (safe <=> /\ safeProbe.init = "ok"
                    /\ safeProbe.query = "ok"
                    /\ SignerAddress \in safeProbe.owners)
  /\ pc = "claiming" /\ ~isDryRun
       => route = (IF safe THEN "safe" ELSE "proxy")

\* In the second cycle the Safe answers, but the signer is not among its
\* owners: the handle is cleared.
C8_Witness ==
  /\ pc = "run_fetch"
  /\ iteration = 2
  /\ safeProbe.init = "ok"
  /\ safeProbe.query = "ok"
  /\ safeProbe.owners = {"0xOther"}
  /\ ~safe

\* ---------------------------------------------------------------- C9
\* C9: when the chain id is wrong, or the CTF, USDC or wallet address has no
\* contract code, initialize() fails: the process exits with code 1 and in
\* that cycle no positions are fetched, no claim is attempted and no
\* transaction is submitted.
C9_FatalStartup ==
  /\ chainProbe.kind = "read"
  /\ \/ chainProbe.chainId # ExpectedChainId
     \/ chainProbe.ctfCode = "0x"
     \/ chainProbe.usdcCode = "0x"
     \/ chainProbe.proxyCode = "0x"
  => /\ pc = "exited"
     /\ exitCode = 1
     /\ ~fetched
     /\ idx = 1
     /\ inFlight = {}
     /\ results = <<>>
     /\ submitted = 0

\* In the second cycle the wallet address has no code, everything else being
\* in order.
C9_Witness ==
  /\ iteration = 2
  /\ chainProbe.kind = "read"
  /\ chainProbe.chainId = ExpectedChainId
  /\ chainProbe.ctfCode = "0x608060405234"
  /\ chainProbe.usdcCode = "0x608060405234"
  /\ chainProbe.proxyCode = "0x"
  /\ pc = "exited"

\* ---------------------------------------------------------------- C10
\* C10: on the proxy-factory path, a claim that finds the signer's balance
\* at zero returns a failed ClaimResult whose error names the signer's
\* address, and submits nothing.
C10_NoGasFailsFast ==
  [][pc = "claiming" /\ route = "proxy" /\ lastOutcome'.step = "no_gas"
       => /\ pc' = "claimed"
          /\ lastResult'.success = FALSE
          /\ lastResult'.error = <<"No MATIC for gas fees. Send MATIC to", SignerAddress>>
          /\ lastResult'.txHash = "none"
          /\ submitted' = submitted]_vars

\* The second claim of a cycle found the balance at zero, after a first
\* claim that was submitted.
C10_Witness ==
  /\ pc = "claimed"
  /\ route = "proxy"
  /\ lastOutcome.step = "no_gas"
  /\ idx = 3
  /\ submitted = 1

C12_EmptyCycle ==
  /\ [](fetched /\ positions = <<>> /\ pc # "run_check"
          => /\ summary.kind = "no_positions"
             /\ pc \in {"balances", "loop_top", "waiting", "done"}
             /\ exitCode \in {-1, 0}
             /\ idx = 1
             /\ inFlight = {}
             /\ route = "none"
             /\ results = <<>>
             /\ successCount = 0
             /\ failCount = 0
             /\ submitted = 0)
  /\ [][pc = "run_check" /\ positions = <<>> => pc' = "balances"]_vars

\* A single run received a list in which nothing was claimable and has
\* completed.
C12_Witness ==
  /\ response.kind = "list"
  /\ positions = <<>>
  /\ summary.kind = "no_positions"
  /\ pc = "done"
  /\ exitCode = 0

\* ---------------------------------------------------------------- C13
\* C13: no claim ledger.  A position whose claim failed in the cycle before
\* and that this cycle's response reports claimable again has been attempted
\* again when this cycle is over.
C13_FailedIsRetried ==
  iteration > 1 /\ fetched /\ CycleOver
    => \A p \in failedBefore :
         (\E i \in 1 .. Len(positions) : positions[i] = p)
           => \E i \in 1 .. idx - 1 : positions[i] = p

\* ---------------------------------------------------------------- C14
\* The chain or the SDK made the claim last settled fail by throwing.
ClaimThrew ==
  lastOutcome.step \in {"create_throws", "sign_throws", "execute_throws",
                        "balance_throws", "proxy_throws", "wait_throws"}

\* C14: soft failures do not stop the loop.  In loop mode with no shutdown
\* signal received, a cycle in which the fetch failed or claims failed does
\* not end the process: the loop is still there to start the next cycle.
C14_SoftFailuresKeepLoop ==
  /\ loopMode
  /\ ~shouldExit
  /\ fetched
  /\ \/ response.kind # "list"
     \/ failCount > 0
     \/ ClaimThrew
  => pc \notin {"exited", "done"}

C16_StandardEncoding ==
  lastCall.kind = "call" /\ ~lastCall.input.negativeRisk
    => LET in == lastCall.input
           out == lastCall.output
       IN /\ out.kind = "calldata"
          /\ out.signature
               = "redeemPositions(address,bytes32,bytes32,uint256[])"
          /\ Len(out.args) = 4
          /\ out.args[1] = "0x2791"
          /\ out.args[2] = "0x0000"
          /\ out.args[3] = in.conditionId
          /\ Len(out.args[4]) = 1
          /\ out.args[4][1] = 2 ^ in.outcomeIndex

\* Outcome 2 of a standard market: the index set is 4.
C16_Witness ==
  /\ lastCall.kind = "call"
  /\ ~lastCall.input.negativeRisk
  /\ lastCall.input.outcomeIndex = 2
  /\ lastCall.output.args[4] = <<4>>

\* ---------------------------------------------------------------- C18
RECURSIVE SumOfSizes(_)
SumOfSizes(ps) ==
  IF Len(ps) = 0 THEN 0 ELSE ps[1].size + SumOfSizes(Tail(ps))

\* The claimable positions of the response of this cycle.
ClaimableOfResponse == SelectSeq(response.data, ClaimablePerSpec)

\* The total of a dry-run summary, in the unit of the sizes.
ReportedTotal ==
  (summary.totalValue.whole * 100 + summary.totalValue.frac) * 10 ^ 5

\* The counts of a dry-run summary over the N claimable positions: N
\* synthetic successes and no failure.
DryRunCounts ==
  /\ summary.wouldClaim = Len(ClaimableOfResponse)
  /\ Len(results) = Len(ClaimableOfResponse)
  /\ \A i \in 1 .. Len(results) : results[i]
  /\ failCount = 0

\* C18 as stated: every position of a dry-run cycle yields a synthetic
\* success, the summary reports N would-be claims and no failure, and the
\* total it reports equals the sum of the sizes of the N claimable positions.
C18_TotalIsSumOfSizes ==
  summary.kind = "dry_run"
    => /\ DryRunCounts
       /\ ReportedTotal = SumOfSizes(ClaimableOfResponse)

\* C18 as amended: the total reported is that sum written with two decimals,
\* the nearest hundredth of a share, so that it is within 0.005 of the sum.
C18_TotalIsRoundedSum ==
  summary.kind = "dry_run"
    => /\ DryRunCounts
       /\ summary.totalValue.frac \in 0 .. 99
       /\ 2 * (ReportedTotal - SumOfSizes(ClaimableOfResponse)) <= 10 ^ 5
       /\ 2 * (SumOfSizes(ClaimableOfResponse) - ReportedTotal) <= 10 ^ 5

\* A dry run over two positions of 0.004 share: the sum is 0.008 and the
\* summary reports two would-be claims and a total of 0.01.
C18_Witness ==
  /\ summary.kind = "dry_run"
  /\ summary.wouldClaim = 2
  /\ SumOfSizes(ClaimableOfResponse) = 8 * 10 ^ 4
  /\ summary.totalValue = [whole |-> 0, frac |-> 1]

\* ---------------------------------------------------------------- C19
\* initialize() read the chain and found the wrong network or an address
\* without contract code.
FatalChainRead ==
  /\ chainProbe.kind = "read"
  /\ \/ chainProbe.chainId # 137
     \/ chainProbe.ctfCode = "0x"
     \/ chainProbe.usdcCode = "0x"
     \/ chainProbe.proxyCode = "0x"

\* C19: the exit code.  A missing RPC_URL, PK or POLYMARKET_PROXY_ADDRESS, a
\* wrong network and missing contract code end the process with code 1; a
\* process that completes normally ends with code 0, and a single run whose
\* cycle returns completes normally whether it found nothing to claim or
\* some of its claims failed.
C19_ExitCode ==
  /\ [](/\ exitCode \in {-1, 0, 1}
        /\ exitCode = 1 <=> pc = "exited"
        /\ exitCode = 0 <=> pc = "done"
        /\ pc # "main" /\ env # {"RPC_URL", "PK", "POLYMARKET_PROXY_ADDRESS"}
             => exitCode = 1
        /\ FatalChainRead => exitCode = 1)
  /\ [][pc = "balances" /\ ~loopMode /\ pc' # pc
         => pc' = "done" /\ exitCode' = 0]_vars

\* A single run in which one claim succeeded and one failed has completed
\* with code 0.
C19_Witness ==
  /\ ~loopMode
  /\ pc = "done"
  /\ exitCode = 0
  /\ successCount = 1
  /\ failCount = 1

\* ---------------------------------------------------------------- C20
\* C20: the network profile follows the configuration.  An initialize() that
\* passed its checks found the chain of the test profile when TEST_MODE is
\* set, and the chain of the production profile when it is not.
C20_ProfileFollowsTestMode ==
  pc = "run_fetch"
    => chainProbe.chainId = (IF "TEST_MODE" \in env THEN 80001 ELSE 137)

\* ---------------------------------------------------------------- C21
\* The minutes (in tenths) a text gives when it is a positive number, and 0
\* when it gives none.
C21_Minutes(text) ==
  CASE text = "0.5" -> 5
    [] text = "15" -> 150
    [] text = "45" -> 450
    [] text = "40000" -> 400000
    [] OTHER -> 0

\* The text the first --interval argument carries: what follows its '=', or
\* else the next argument.
C21_FlagText ==
  LET F == {i \in 1 .. Len(argv) : argv[i][1] = "--interval"}
  IN IF F = {} THEN ""
     ELSE LET i == CHOOSE j \in F : \A k \in F : j <= k
          IN IF Len(argv[i]) = 2 THEN argv[i][2]
             ELSE IF i < Len(argv) /\ Len(argv[i + 1]) = 1 THEN argv[i + 1][1]
             ELSE ""

\* The valid interval supplied, the flag before the variable; 0 for none.
C21_Supplied ==
  IF C21_Minutes(C21_FlagText) > 0 THEN C21_Minutes(C21_FlagText)
  ELSE C21_Minutes(envInterval)

C21_HasLoopFlag == \E i \in 1 .. Len(argv) : argv[i] = <<"--loop">>

\* C21: loop configuration.  Once the command line is read, loop mode is on
\* iff --loop is given or a valid positive interval is supplied by
\* --interval or, failing that, by LOOP_INTERVAL_MINUTES; with --loop and no
\* valid interval the interval is 60 minutes; a supplied interval is used,
\* raised to 1 minute when it is below; and without loop mode the process
\* runs one cycle and no second one.
C21_LoopConfiguration ==
  pc # "config"
    => /\ loopMode <=> (C21_HasLoopFlag \/ C21_Supplied > 0)
       /\ C21_HasLoopFlag /\ C21_Supplied = 0
            => intervalMinutes = [kind |-> "number", value |-> 600]
       /\ C21_Supplied > 0
            => /\ intervalMinutes.kind = "number"
               /\ intervalMinutes.value
                    = (IF C21_Supplied < 10 THEN 10 ELSE C21_Supplied)
       /\ loopMode
            => intervalMinutes.kind = "number" /\ intervalMinutes.value >= 10
       /\ ~loopMode
            => /\ iteration = 1
               /\ pc \notin {"loop_top", "waiting"}
               /\ pc = "done" => fetched /\ exitCode = 0

\* Started with --interval=0.5 and LOOP_INTERVAL_MINUTES=45, without --loop:
\* the loop runs, at the interval of 1 minute, and is in its second cycle.
C21_Witness ==
  /\ argv = <<<<"--interval", "0.5">>>>
  /\ envInterval = "45"
  /\ loopMode
  /\ intervalMinutes = [kind |-> "number", value |-> 10]
  /\ iteration = 2
  /\ pc = "balances"

\* ---------------------------------------------------------------- C22
\* C22: every wait between cycles is max(0, target - now) plus a jitter that
\* is non-negative and below 5 seconds; it is never negative; and the cycle
\* that follows the wait does not start before its target time.
C22_WaitReachesTarget ==
  /\ [](pc = "waiting"
          => /\ delay = (IF nextPlanned - now > 0 THEN nextPlanned - now ELSE 0)
             /\ jitter >= 0
             /\ jitter < 5
             /\ delay + jitter >= 0)
  /\ [][pc = "waiting" /\ pc' = "run_init"
          => /\ now' - now = delay + jitter
             /\ now' >= nextPlanned]_vars

\* ---------------------------------------------------------------- C23
\* C23: on the proxy-factory path, a claim that found gas is successful only
\* if the factory transaction was submitted and its receipt came without
\* failure status; a null receipt and a receipt of status 0 give a failed
\* result, the reverted one with the transaction hash; and every failed
\* result adds one to the failures the summary reports.
C23_ProxyReceipt ==
  /\ [][pc = "claiming" /\ route = "proxy" /\ pc' = "claimed"
          => /\ lastResult'.success
                  => lastOutcome'.step = "confirmed"
                       /\ submitted' = submitted + 1
             /\ lastOutcome'.step = "receipt_null"
                  => /\ ~lastResult'.success
                     /\ lastResult'.error = <<"Transaction receipt is null">>
                     /\ lastResult'.txHash = "none"
                     /\ submitted' = submitted + 1
             /\ lastOutcome'.step = "reverted"
                  => /\ ~lastResult'.success
                     /\ lastResult'.error = <<"Transaction reverted">>
                     /\ lastResult'.txHash = "0xhash"
                     /\ submitted' = submitted + 1]_vars
  /\ [][pc = "claimed" /\ pc' # pc
          => /\ pc' = "run_loop"
             /\ failCount' = failCount + (IF lastResult.success THEN 0 ELSE 1)
             /\ successCount'
                  = successCount + (IF lastResult.success THEN 1 ELSE 0)]_vars
  /\ [](summary.kind = "claimed"
          => /\ summary.failed = failCount
             /\ summary.failed = CountOf(results, FALSE)
             /\ summary.failed + summary.successful = summary.total)

\* The second claim of a cycle on the proxy path came back reverted, after a
\* first claim that failed as well.
C23_Witness ==
  /\ pc = "claimed"
  /\ route = "proxy"
  /\ lastOutcome.step = "reverted"
  /\ ~lastResult.success
  /\ lastResult.txHash = "0xhash"
  /\ failCount = 1
  /\ submitted = 2

C25_TargetMatchesCalldata ==
  lastTx.kind = "tx"
    => /\ lastTx.via \in {"safe", "proxy"}
       /\ lastTx.data.kind = "calldata"
       /\ IF lastTx.position.negativeRisk
          THEN /\ lastTx.to = "0xd91E"
               /\ lastTx.data.signature = "redeemPositions(bytes32,uint256[])"
               /\ Len(lastTx.data.args) = 2
          ELSE /\ lastTx.to = "0x4D97"
               /\ lastTx.data.signature
                    = "redeemPositions(address,bytes32,bytes32,uint256[])"
               /\ Len(lastTx.data.args) = 4
       /\ ~(/\ lastTx.to = "0xd91E"
            /\ lastTx.data.signature
                 = "redeemPositions(address,bytes32,bytes32,uint256[])")
       /\ ~(/\ lastTx.to = "0x4D97"
            /\ lastTx.data.signature = "redeemPositions(bytes32,uint256[])")

\* The second claim of a cycle, for a negative-risk position, was submitted
\* through the proxy factory to the adapter and confirmed.
C25_Witness ==
  /\ lastTx.kind = "tx"
  /\ lastTx.via = "proxy"
  /\ lastTx.position.negativeRisk
  /\ lastTx.to = "0xd91E"
  /\ lastOutcome.step = "confirmed"
  /\ submitted = 2

\* ---------------------------------------------------------------- C26
\* C26: the schedule anchor.  The target of the second cycle is set to the
\* completion time of the first cycle plus the interval; after that the
\* target changes only by one interval being added after each completed
\* cycle.  The target of cycle n >= 2 is therefore the completion time of
\* cycle 1 plus n - 1 intervals, whatever the cycles in between took, the
\* clock shows and the jitter was.
C26_ScheduleAnchor ==
  /\ [][nextPlanned' # nextPlanned
          => /\ pc = "balances"
             /\ pc' = "loop_top"
             /\ IF iteration = 1
                THEN nextPlanned' = now' + IntervalMs /\ firstDone' = now'
                ELSE nextPlanned' = nextPlanned + IntervalMs]_vars
  /\ [][firstDone' # firstDone => iteration = 1 /\ pc = "balances"]_vars
  /\ [](pc \in {"loop_top", "waiting"}
          => nextPlanned = firstDone + iteration * IntervalMs)
  /\ [](iteration >= 2 /\ pc \notin {"loop_top", "waiting", "done"}
          => nextPlanned = firstDone + (iteration - 1) * IntervalMs)

\* The first cycle overran the interval and the wait before the second drew
\* the largest jitter; the second cycle has returned, and the target of the
\* third is two intervals after the completion of the first.
C26_Witness ==
  /\ pc = "waiting"
  /\ iteration = 2
  /\ firstDone = IntervalMs + 1
  /\ now >= firstDone + IntervalMs + 2
  /\ nextPlanned = firstDone + 2 * IntervalMs

C28_EscapesNext ==
  /\ pc = "claiming"
  /\ lastOutcome'.step \in {"create_throws", "sign_throws", "execute_throws",
                            "balance_throws", "proxy_throws", "wait_throws"}
  /\ \/ lastOutcome'.thrown = "nullish"
     \/ route = "proxy" /\ lastOutcome'.thrown = "nonstring"

\* C28: every exception that reaches the handler of run() is fatal, in every
\* cycle.  An initialize() that throws, and an exception that escapes
\* claimPosition during the claim loop, end the process with exit code 1:
\* the positions not yet attempted stay unattempted and nothing runs after
\* it, no further cycle either.
C28_RunExceptionsAreFatal ==
  /\ [](iteration > 1 /\ StartupCheckThrows(chainProbe)
          => pc = "exited" /\ exitCode = 1 /\ positions = <<>> /\ idx = 1)
  /\ [][pc = "run_init" /\ pc' \notin {"run_init", "run_fetch"}
          => pc' = "exited" /\ exitCode' = 1 /\ iteration' = iteration]_vars
  /\ [][C28_EscapesNext
          => /\ pc' = "exited"
             /\ exitCode' = 1
             /\ idx' = idx
             /\ results' = results
             /\ iteration' = iteration]_vars
  /\ [][pc # "exited"]_vars
  /\ [](pc = "exited" => exitCode = 1)

\* In the second cycle of a loop the first of two claims threw a value whose
\* message is no string: the process has exited, the second position
\* unattempted.
C28_Witness ==
  /\ pc = "exited"
  /\ exitCode = 1
  /\ loopMode
  /\ iteration = 2
  /\ route = "proxy"
  /\ lastOutcome.step = "proxy_throws"
  /\ lastOutcome.thrown = "nonstring"
  /\ Len(positions) = 2
  /\ idx = 2
  /\ results = <<>>

\* ---------------------------------------------------------------- C29
\* C29: a getBalances() that throws after the claims of a cycle is caught by
\* runOnce.  The process is not terminated, the results and the counts of
\* the cycle stay as they were, and in loop mode the loop goes on with the
\* target set, or advanced by one interval, as after any other cycle.
C29_BalanceFailureIsCaught ==
  /\ [][pc = "balances" /\ balances' = "throws"
          => /\ pc' = (IF loopMode THEN "loop_top" ELSE "done")
             /\ exitCode' = (IF loopMode THEN -1 ELSE 0)
             /\ UNCHANGED <<positions, results, successCount, failCount,
                            summary, submitted, iteration>>
             /\ loopMode
                  => nextPlanned' = (IF iteration = 1 THEN now' + IntervalMs
                                     ELSE nextPlanned + IntervalMs)]_vars
  /\ [](balances = "throws" => pc \in {"loop_top", "done"})
  /\ [](balances = "throws" /\ pc = "loop_top" /\ ~shouldExit
          => ENABLED StartWait)

\* The second cycle of a loop had one claim fail, and then its balance
\* report threw: the loop is at its top, about to wait for the third cycle.
C29_Witness ==
  /\ balances = "throws"
  /\ loopMode
  /\ iteration = 2
  /\ pc = "loop_top"
  /\ ~shouldExit
  /\ failCount = 1
  /\ nextPlanned = firstDone + 2 * IntervalMs

\* ---------------------------------------------------------------- C30
\* The steps of claimViaGnosisSafe() with the Safe SDK that can throw.
C30_SdkThrows == {"create_throws", "sign_throws", "execute_throws"}

\* C30 as stated: on the Safe path a claim is successful as soon as
\* executeTransaction returns, with or without an identifier, nothing being
\* waited for or looked at afterwards; and it is reported failed only when
\* creating, signing or executing the Safe transaction throws.
C30_SafeFailsOnlyOnSdkThrow ==
  [][pc = "claiming" /\ route = "safe" /\ pc' = "claimed"
       => /\ lastResult'.success <=> (lastOutcome'.step = "executed")
          /\ lastOutcome'.step = "executed"
               => /\ lastResult'.txHash = lastOutcome'.hash
                  /\ submitted' = submitted + 1
          /\ ~lastResult'.success <=> (lastOutcome'.step \in C30_SdkThrows)]_vars

\* C30 as amended: it is reported failed when building the calldata or
\* creating, signing or executing the Safe transaction throws, and only
\* then.
C30_SafeFailsOnlyOnThrow ==
  [][pc = "claiming" /\ route = "safe" /\ pc' = "claimed"
       => /\ lastResult'.success <=> (lastOutcome'.step = "executed")
          /\ lastOutcome'.step = "executed"
               => /\ lastResult'.txHash = lastOutcome'.hash
                  /\ submitted' = submitted + 1
          /\ ~lastResult'.success
               <=> (lastOutcome'.step \in C30_SdkThrows \cup {"build_throws"})
          /\ lastOutcome'.step = "build_throws"
               => submitted' = submitted /\ lastTx' = [kind |-> "none"]]_vars

\* executeTransaction returned a response without any identifier: the claim
\* is a success without transaction hash.
C30_Witness ==
  /\ pc = "claimed"
  /\ route = "safe"
  /\ lastOutcome.step = "executed"
  /\ lastOutcome.hash = "undefined"
  /\ lastResult.success
  /\ lastResult.txHash = "undefined"
  /\ lastTx.kind = "tx"

\* ---------------------------------------------------------------- C31
\* C31: in a cycle that reaches its summary each claimable position is
\* attempted exactly once, in list order, with exactly one result.  At
\* every point of the claim loop successCount + failCount is the number of
\* positions attempted so far (the attempt in progress, which has no result
\* yet, is not counted), and at the summary it is the number of claimable
\* positions.
C31_EachPositionOnce ==
  /\ [](/\ Len(attempted) <= Len(positions)
        /\ attempted = SubSeq(positions, 1, Len(attempted))
        /\ Len(results) = successCount + failCount)
  /\ [](pc = "run_loop" => successCount + failCount = Len(attempted))
  /\ [](pc \in {"claiming", "claimed"}
          => successCount + failCount = Len(attempted) - 1)
  /\ [](summary # NoSummary
          => /\ attempted = positions
             /\ Len(results) = Len(positions)
             /\ successCount + failCount = Len(positions))
  /\ [][attempted' # attempted /\ attempted' # <<>>
          => /\ pc = "run_loop" /\ pc' = "claiming"
             /\ attempted' = Append(attempted, positions[Len(attempted) + 1])
             /\ inFlight' = {Len(attempted')}
             /\ results' = results]_vars
  /\ [][results' # results /\ results' # <<>>
          => /\ Len(results') = Len(results) + 1
             /\ Len(results') = Len(attempted)
             /\ attempted' = attempted]_vars

\* A cycle of two different positions has reached its summary: both were
\* attempted, in the order of the list, the first claim succeeded and the
\* second failed.
C31_Witness ==
  /\ pc = "balances"
  /\ ~isDryRun
  /\ summary # NoSummary
  /\ Len(positions) = 2
  /\ positions[1] # positions[2]
  /\ attempted = positions
  /\ results = <<TRUE, FALSE>>
  /\ successCount = 1
  /\ failCount = 1

====
